---- MODULE Spec2Model ----
(***************************************************************************)
(* Aoide: the playlist-import pipeline.                                    *)
(*                                                                         *)
(*   Cache                  src/src/cache.py                               *)
(*   TrackAnalysisApiClient src/src/trackanalysis_api_client.py            *)
(*   Track                  src/src/track.py, src/src/constants.py         *)
(*   Playlist               src/src/playlist.py                            *)
(*   CLI                    src/src/cli.py                                 *)
(*                                                                         *)
(* Time is counted in ticks of 100 ms.  The client only ever reads the     *)
(* difference time.time() - last_request_time and compares it with 1.0, so *)
(* the model keeps that difference (elapsed), saturated at one second.     *)
(***************************************************************************)
EXTENDS Integers, Sequences, FiniteSets, TLC

VARIABLES
    data,             \* Cache.data: the in-memory store, a mapping key -> value
    cache_file,       \* the file behind Cache.cache_file on durable media
    request_count,    \* Cache.request_count
    cached_playlist,  \* Cache.cached_playlist
    last_save,        \* how the most recent _save_cache of this session ended
    elapsed,          \* time.time() - TrackAnalysisApiClient.last_request_time (saturated)
    since_issue,      \* ticks since the previous outbound enrichment request (saturated)
    pc,               \* position of the running command: idle, get, request, answered, build
    playlist_id,      \* Playlist.playlist_id of that Playlist, a sequence of characters
    playlist_data,    \* Playlist.data of the Playlist the latest import constructed
    refs,             \* Playlist.refs
    track_data,       \* Playlist.track_data, as collected so far
    track_ref,        \* get(): its parameter track_ref, the track identifier
    response,         \* get(): the local response, or the exception requests.get raised
    n429,             \* 429 answers received so far in the running get()
    count_at_get,     \* request_count when the running get() was entered
    import_result,    \* how the latest Playlist(...) construction went
    current_playlist  \* CLI.current_playlist

vars == <<data, cache_file, request_count, cached_playlist, last_save, elapsed,
          since_issue, pc, playlist_id, playlist_data, refs, track_data, track_ref, response, n429,
          count_at_get,
          import_result, current_playlist>>

cacheVars  == <<data, cache_file, request_count, cached_playlist, last_save>>
clockVars  == <<elapsed, since_issue>>
getVars    == <<track_ref, response, n429, count_at_get>>
importVars == <<pc, playlist_id, playlist_data, refs, track_data>>

-----------------------------------------------------------------------------
(* Bounds of the model *)

MaxCount    == 3    \* the request counter is not driven past this value
MaxThrottle == 2    \* 429 answers the service gives within one get()
MaxLatency  == 1    \* ticks a request may take to be answered
IdleStep    == 5    \* ticks the prompt waits at a time

(* Program constants, in ticks of 100 ms *)

ONE_SECOND     == 10
THROTTLE_DELAY == 1

-----------------------------------------------------------------------------
(* Python values.  None and numbers are wrapped so that a mapping may hold  *)
(* either under the same key.                                               *)

None   == [none |-> TRUE]
Num(n) == [num |-> n]
Str(s) == [str |-> s]

Min(a, b) == IF a < b THEN a ELSE b

RC_KEY == "request count"
PL_KEY == "cached playlist"
OTHER_KEY == "k"

EmptyDict == <<>>

\* dict.get(key, default)
DictGet(d, key, default) == IF key \in DOMAIN d THEN d[key] ELSE default

\* a faulty d[key] = value that rebinds d to the one entry (sensitivity of C8)
DictSet_Replace(d, key, value) == [k \in {key} |-> value]

\* d[key] = value
DictSet(d, key, value) == [k \in DOMAIN d \cup {key} |-> IF k = key THEN value ELSE d[k]]

\* del d[key]
DictDel(d, key) == [k \in DOMAIN d \ {key} |-> d[k]]

-----------------------------------------------------------------------------
(* Track attributes, as the enrichment service returns them and as the     *)
(* cached playlist holds them                                              *)

AttrsA == [name |-> Str("A"), mode |-> Str("major"), camelot |-> Str("8B"), tempo |-> Num(120)]
AttrsB == [name |-> Str("B"), mode |-> Str("minor"), tempo |-> Num(0)]
TrackAttrs == {AttrsA, AttrsB}

\* the codes of the Camelot wheel, and strings that are none of them
CamelotCodes ==
    {"1A", "1B", "2A", "2B", "3A", "3B", "4A", "4B", "5A", "5B", "6A", "6B",
     "7A", "7B", "8A", "8B", "9A", "9B", "10A", "10B", "11A", "11B", "12A", "12B"}
OtherCamelot == {"", "0A", "13A", "8b", "B8", "8"}

\* mode strings: the two the table knows, and others
ModeStrings == {"major", "minor", "", "Major", "dorian"}

\* attributes with every continuous field, and with some of them missing or 0
AttrsFull ==
    [name |-> Str("F"), key |-> Str("C"), mode |-> Str("minor"), camelot |-> Str("5A"),
     loudness |-> Str("-5 dB"), tempo |-> Num(120), energy |-> Num(2), danceability |-> Num(3),
     happiness |-> Num(4), acousticness |-> Num(5), liveness |-> Num(6), speechiness |-> Num(7)]
AttrsSparse == [key |-> Str("C"), tempo |-> Num(0), happiness |-> Num(4), speechiness |-> Num(0)]

\* attribute mappings a Track is built from
TrackInputs ==
    {EmptyDict, AttrsA, AttrsB, AttrsFull, AttrsSparse, [key |-> Str("C")], [name |-> Str("")]}
    \cup {[name |-> Str("c"), camelot |-> Str(c)] : c \in CamelotCodes \cup OtherCamelot}
    \cup {[mode |-> Str(m)] : m \in ModeStrings}

\* values a caller stores under a key of its own
OtherValues == {Num(1)}

\* playlists handed to Cache.update_playlist
PlaylistValues == {<<>>, <<AttrsB, AttrsA>>, <<AttrsA, None>>}

-----------------------------------------------------------------------------
(* Cache: src/src/cache.py *)

MissingFile   == [kind |-> "missing"]
PartialFile   == [kind |-> "partial"]  \* truncated by open(.., 'w'), the dump not finished
JsonFile(doc) == [kind |-> "json", doc |-> doc]

\* files the program does not write itself
UnreadableFile  == [kind |-> "unreadable"]   \* open(.., 'r') raises IOError
UndecodableFile == [kind |-> "undecodable"]  \* bytes that are not UTF-8
ArrayFile       == [kind |-> "array"]        \* well-formed JSON, but a list: []

\* json.dump(self.data, f): a JSON object, the set of its members
JsonDump(d) == {<<k, d[k]>> : k \in DOMAIN d}

\* json.load(f) of a well-formed object
JsonLoad(doc) == [k \in {m[1] : m \in doc} |-> (CHOOSE m \in doc : m[1] = k)[2]]

\* Cache._load_cache, when it returns a mapping: {} for a file that is missing
\* or raises JSONDecodeError or IOError
load_cache(f) == IF f.kind = "json" THEN JsonLoad(f.doc) ELSE EmptyDict

\* Cache._load_cache raises: f.read() inside json.load raises UnicodeDecodeError,
\* a ValueError that is neither a JSONDecodeError nor an IOError
load_cache_raises(f) == f.kind = "undecodable"

\* Cache.__init__ raises: _load_cache does, or it returns a list and
\* self.get("request count", 0) raises AttributeError
CacheInitRaises(f) == load_cache_raises(f) \/ f.kind = "array"

SaveOutcomes == {"ok", "open_failed", "write_failed"}

\* Cache._save_cache: the file it leaves.  open(.., 'w') truncates the file
\* before json.dump writes it; an IOError of either is swallowed.
save_cache(d, outcome) ==
    CASE outcome = "ok"           -> JsonFile(JsonDump(d))
      [] outcome = "open_failed"  -> cache_file
      [] outcome = "write_failed" -> PartialFile

\* Cache.get
CacheGet(key, default) == DictGet(data, key, default)

\* Cache.has
CacheHas(key) == key \in DOMAIN data

\* Cache.get_cached_playlist
get_cached_playlist == cached_playlist

\* what a fresh load of the durable file reads under "request count"
PersistedCount == DictGet(load_cache(cache_file), RC_KEY, 0)

\* what a fresh load of the durable file reads under "cached playlist"
PersistedPlaylist == DictGet(load_cache(cache_file), PL_KEY, <<>>)

\* the tail of every mutation: self.data = d, then _save_cache()
Persist(d, outcome) ==
    /\ data' = d
    /\ cache_file' = save_cache(d, outcome)
    /\ last_save' = IF outcome = "ok" THEN "ok" ELSE "failed"

\* Cache.set, called by a user of the store under a key of its own
CacheSet(key, value, outcome) ==
    /\ pc = "idle"
    /\ Persist(DictSet(data, key, value), outcome)
    /\ UNCHANGED <<request_count, cached_playlist>>

\* a faulty delete that does not call _save_cache (sensitivity of C9)
CacheDelete_NoSave(key, outcome) ==
    /\ pc = "idle"
    /\ data' = IF key \in DOMAIN data THEN DictDel(data, key) ELSE data
    /\ UNCHANGED <<cache_file, last_save, request_count, cached_playlist>>

\* Cache.delete
CacheDelete(key, outcome) ==
    /\ pc = "idle"
    /\ IF key \in DOMAIN data
       THEN Persist(DictDel(data, key), outcome)
       ELSE UNCHANGED <<data, cache_file, last_save>>
    /\ UNCHANGED <<request_count, cached_playlist>>

\* Cache.clear
CacheClear(outcome) ==
    /\ pc = "idle"
    /\ Persist(EmptyDict, outcome)
    /\ UNCHANGED <<request_count, cached_playlist>>

\* a faulty update_request_count that stores the count before the increment
\* (sensitivity of C5)
update_request_count_stale(outcome) ==
    /\ request_count' = request_count + 1
    /\ Persist(DictSet(data, RC_KEY, request_count), outcome)
    /\ UNCHANGED cached_playlist

\* Cache.update_request_count
update_request_count(outcome) ==
    /\ request_count' = request_count + 1
    /\ Persist(DictSet(data, RC_KEY, request_count + 1), outcome)
    /\ UNCHANGED cached_playlist

\* Cache.update_playlist
update_playlist(playlist, outcome) ==
    /\ cached_playlist' = playlist
    /\ Persist(DictSet(data, PL_KEY, playlist), outcome)
    /\ UNCHANGED request_count

\* Cache.__init__ over the file f
CacheInit(f) ==
    LET d == load_cache(f) IN
    /\ data' = d
    /\ request_count' = DictGet(d, RC_KEY, 0)
    /\ cached_playlist' = DictGet(d, PL_KEY, <<>>)

-----------------------------------------------------------------------------
(* Track: src/src/track.py, src/src/constants.py *)

\* the wheel: position n of ring A and of ring B
WheelA == <<"1A", "2A", "3A", "4A", "5A", "6A", "7A", "8A", "9A", "10A", "11A", "12A">>
WheelB == <<"1B", "2B", "3B", "4B", "5B", "6B", "7B", "8B", "9B", "10B", "11B", "12B">>

\* a faulty table that numbers the positions and not the codes (sensitivity of C24)
CAMELOT_BY_POSITION ==
    [c \in CamelotCodes |-> CHOOSE n \in 1..12 : WheelA[n] = c \/ WheelB[n] = c]

CAMELOT_TO_NUMERIC ==
    ("1A" :> 1) @@ ("1B" :> 2) @@ ("2A" :> 3) @@ ("2B" :> 4) @@ ("3A" :> 5) @@ ("3B" :> 6) @@
    ("4A" :> 7) @@ ("4B" :> 8) @@ ("5A" :> 9) @@ ("5B" :> 10) @@ ("6A" :> 11) @@ ("6B" :> 12) @@
    ("7A" :> 13) @@ ("7B" :> 14) @@ ("8A" :> 15) @@ ("8B" :> 16) @@ ("9A" :> 17) @@ ("9B" :> 18) @@
    ("10A" :> 19) @@ ("10B" :> 20) @@ ("11A" :> 21) @@ ("11B" :> 22) @@ ("12A" :> 23) @@ ("12B" :> 24)

\* a faulty table with the two values exchanged (sensitivity of C25)
MODE_EXCHANGED == ("major" :> 0) @@ ("minor" :> 1)

MODE_TO_NUMERIC == ("major" :> 1) @@ ("minor" :> 0)

\* TABLE.get(value, 0) for an attribute value that is a string or None
TableGet(table, value) ==
    IF "str" \in DOMAIN value /\ value.str \in DOMAIN table THEN table[value.str] ELSE 0

\* Track.__init__ and Track.load_track
Track(attrs) ==
    IF attrs # EmptyDict
    THEN [data         |-> attrs,
          name         |-> DictGet(attrs, "name", Str("Unknown Track")),
          key          |-> DictGet(attrs, "key", Str("")),
          mode         |-> DictGet(attrs, "mode", Str("")),
          camelot      |-> DictGet(attrs, "camelot", Str("")),
          loudness     |-> DictGet(attrs, "loudness", Str("")),
          tempo        |-> DictGet(attrs, "tempo", None),
          energy       |-> DictGet(attrs, "energy", None),
          danceability |-> DictGet(attrs, "danceability", None),
          happiness    |-> DictGet(attrs, "happiness", None),
          acousticness |-> DictGet(attrs, "acousticness", None),
          liveness     |-> DictGet(attrs, "liveness", None),
          speechiness  |-> DictGet(attrs, "speechiness", None)]
    ELSE [data         |-> attrs,
          name         |-> Str(""),
          key          |-> Str(""),
          mode         |-> Str(""),
          camelot      |-> Str(""),
          loudness     |-> Str(""),
          tempo        |-> None,
          energy       |-> None,
          danceability |-> None,
          happiness    |-> None,
          acousticness |-> None,
          liveness     |-> None,
          speechiness  |-> None]

\* Track.get_track
get_track(track) == track.data

\* a faulty get_name that reads the name from the data, without the default
\* (sensitivity of C21)
get_name_raw(track) == DictGet(track.data, "name", Str(""))

\* Track.get_name
get_name(track) == track.name

\* a faulty get_vector that puts 0 where the tempo is missing (sensitivity of C22)
get_vector_zeroed(track) ==
    <<Num(TableGet(MODE_TO_NUMERIC, track.mode)),
      Num(TableGet(CAMELOT_TO_NUMERIC, track.camelot)),
      IF track.tempo = None THEN Num(0) ELSE track.tempo,
      track.energy, track.danceability, track.happiness,
      track.acousticness, track.liveness, track.speechiness>>

\* Track.get_vector
get_vector(track) ==
    <<Num(TableGet(MODE_TO_NUMERIC, track.mode)),
      Num(TableGet(CAMELOT_TO_NUMERIC, track.camelot)),
      track.tempo, track.energy, track.danceability, track.happiness,
      track.acousticness, track.liveness, track.speechiness>>

\* the methods class Track defines
TrackMethods == {"load_track", "get_track", "get_name", "get_audio_features", "get_vector"}

AttributeError == [raised |-> "AttributeError"]

\* track.<method>() for a method that returns the track's data, if Track has it
CallDataMethod(track, method) ==
    IF method \in TrackMethods THEN track.data ELSE AttributeError

-----------------------------------------------------------------------------
(* Playlist: src/src/playlist.py *)

\* a track href, split at '/'
Href(id) == <<"https:", "", "api.spotify.com", "v1", "tracks", id>>

ItemOf(id) == [track |-> [href |-> Href(id)]]
PayloadOf(items) == [tracks |-> [items |-> items]]

\* what SpotifyAPIClient.get returns: None, or the playlist payload
Payloads ==
    {None,
     [error |-> Str("e")],
     [tracks |-> [total |-> Num(0)]],
     PayloadOf(<<>>),
     PayloadOf(<<ItemOf("t1")>>),
     PayloadOf(<<ItemOf("t1"), ItemOf("t2")>>),
     PayloadOf(<<[track |-> EmptyDict], ItemOf("t2")>>),
     PayloadOf(<<[added_at |-> Str("d")], [track |-> EmptyDict]>>),
     PayloadOf(<<[track |-> None], ItemOf("t2")>>)}

\* key in x, for x a mapping or None, raises TypeError:
\* "argument of type 'NoneType' is not iterable"
InRaises(x) == x = None

\* does the walk of get_track_refs reach the item list?
HasItems(payload) ==
    /\ payload # None
    /\ payload # EmptyDict
    /\ "tracks" \in DOMAIN payload
    /\ ~InRaises(payload.tracks)
    /\ "items" \in DOMAIN payload.tracks

\* 'track' in item and 'href' in item['track'] raises TypeError
ItemRaises(item) == InRaises(item) \/ ("track" \in DOMAIN item /\ InRaises(item.track))

\* Playlist.get_track_refs raises TypeError
get_track_refs_raises(payload) ==
    /\ payload # None
    /\ payload # EmptyDict
    /\ "tracks" \in DOMAIN payload
    /\ \/ InRaises(payload.tracks)
       \/ /\ "items" \in DOMAIN payload.tracks
          /\ \E i \in 1..Len(payload.tracks.items) : ItemRaises(payload.tracks.items[i])

HasHref(item) == "track" \in DOMAIN item /\ "href" \in DOMAIN item.track

\* a faulty extraction that gives up when an item has no href (sensitivity of C18)
get_track_refs_strict(payload) ==
    IF HasItems(payload) /\ \A i \in 1..Len(payload.tracks.items) : HasHref(payload.tracks.items[i])
    THEN [i \in 1..Len(payload.tracks.items) |-> payload.tracks.items[i].track.href]
    ELSE <<>>

\* Playlist.get_track_refs, when it does not raise: the list it returns
get_track_refs(payload) ==
    IF HasItems(payload)
    THEN LET kept == SelectSeq(payload.tracks.items, HasHref)
         IN [i \in 1..Len(kept) |-> kept[i].track.href]
    ELSE <<>>

\* a faulty derivation that takes the first piece of the split (sensitivity of C16)
track_id_first(ref) == IF ref # <<>> THEN ref[1] ELSE ""

\* ref.split('/')[-1] if ref else ""
track_id(ref) == IF ref # <<>> THEN ref[Len(ref)] ELSE ""

IsData(d) == d # None

\* a faulty construction that builds a Track for every entry, None included
\* (sensitivity of C12)
playlist_tracks_unfiltered(td) == [i \in 1..Len(td) |-> Track(td[i])]

\* Playlist.build_playlist, up to its call of cache.update_playlist:
\* the Track objects, and the list handed to the cache
playlist_tracks(td) ==
    LET kept == SelectSeq(td, IsData) IN [i \in 1..Len(kept) |-> Track(kept[i])]

cache_data(tracks) == [i \in 1..Len(tracks) |-> CallDataMethod(tracks[i], "get_data")]

build_raises(tracks) == \E i \in 1..Len(tracks) : cache_data(tracks)[i] = AttributeError

\* a faulty Playlist whose song_list misses the last track (sensitivity of C17)
PlaylistObject_ShortNames(tracks) ==
    [playlist  |-> tracks,
     vectors   |-> [i \in 1..Len(tracks) |-> get_vector(tracks[i])],
     song_list |-> [i \in 1..(Len(tracks) - 1) |-> get_name(tracks[i])]]

\* the Playlist object: its playlist, vectors and song_list
PlaylistObject(tracks) ==
    [playlist  |-> tracks,
     vectors   |-> [i \in 1..Len(tracks) |-> get_vector(tracks[i])],
     song_list |-> [i \in 1..Len(tracks) |-> get_name(tracks[i])]]

\* Playlist.from_cache
from_cache == PlaylistObject(playlist_tracks(get_cached_playlist))

-----------------------------------------------------------------------------
(* TrackAnalysisApiClient: src/src/trackanalysis_api_client.py *)

Malformed == [malformed |-> TRUE]

RequestException == [raised |-> "RequestException"]

\* what requests.get returns: a status and a body
Responses ==
    {[status |-> 200, body |-> a] : a \in TrackAttrs}
    \cup {[status |-> 200, body |-> Malformed],
          [status |-> 429, body |-> Malformed],
          [status |-> 500, body |-> Malformed]}

\* time passes: both differences grow, up to one second
Advance(d) ==
    /\ elapsed' = Min(elapsed + d, ONE_SECOND)
    /\ since_issue' = Min(since_issue + d, ONE_SECOND)

\* a faulty sleep that waits only the throttle delay (sensitivity of C3)
sleep_time_short == IF elapsed < ONE_SECOND THEN Min(THROTTLE_DELAY, ONE_SECOND - elapsed) ELSE 0

\* get(), before the try: the sleep up to one second after the last request
sleep_time == IF elapsed < ONE_SECOND THEN ONE_SECOND - elapsed ELSE 0

\* Playlist.get_track_data calls get() for the next reference; get() sleeps
GetBegin ==
    /\ pc = "get"
    /\ Advance(sleep_time)
    /\ pc' = "request"
    /\ track_ref' = track_id(refs[Len(track_data) + 1])
    /\ n429' = 0
    /\ count_at_get' = request_count
    /\ UNCHANGED <<cacheVars, playlist_id, playlist_data, refs, track_data, response, import_result,
                   current_playlist>>

\* requests.get(...): the request goes out and, latency ticks later, is
\* answered or fails
Request(answer, latency) ==
    /\ pc = "request"
    /\ answer # RequestException => request_count < MaxCount
    /\ (answer # RequestException /\ answer.status = 429) => n429 < MaxThrottle
    /\ response' = answer
    /\ elapsed' = Min(elapsed + latency, ONE_SECOND)
    /\ since_issue' = Min(latency, ONE_SECOND)
    /\ pc' = "answered"
    /\ UNCHANGED <<cacheVars, playlist_id, playlist_data, refs, track_data, track_ref, n429,
                   count_at_get, import_result, current_playlist>>

\* get() returns result to Playlist.get_track_data, which appends it
Return(result) ==
    /\ track_data' = Append(track_data, result)
    /\ pc' = IF Len(track_data) + 1 = Len(refs) THEN "build" ELSE "get"
    /\ response' = None
    /\ UNCHANGED <<playlist_id, playlist_data, refs, track_ref, n429, count_at_get>>

\* a faulty result that hands back the body of a 200 answer unparsed
\* (sensitivity of C14)
ResultOf_Unparsed(answer) == IF answer.status = 200 THEN answer.body ELSE None

\* response.json() of a 200 answer, or the ValueError branch; None for another status
ResultOf(answer) ==
    IF answer.status = 200 /\ answer.body # Malformed THEN answer.body ELSE None

\* the rest of one pass of the while loop, for a request that was answered
HandleResponse(outcome) ==
    /\ pc = "answered"
    /\ response # RequestException
    /\ update_request_count(outcome)
    /\ IF response.status = 429
       THEN /\ Advance(THROTTLE_DELAY)
            /\ n429' = n429 + 1
            /\ pc' = "request"
            /\ UNCHANGED <<playlist_id, playlist_data, refs, track_data, track_ref, response,
                           count_at_get>>
       ELSE /\ elapsed' = 0
            /\ UNCHANGED since_issue
            /\ Return(ResultOf(response))
    /\ UNCHANGED <<import_result, current_playlist>>

\* the except clause for requests.exceptions.RequestException
HandleException ==
    /\ pc = "answered"
    /\ response = RequestException
    /\ elapsed' = 0
    /\ UNCHANGED since_issue
    /\ Return(None)
    /\ UNCHANGED <<cacheVars, import_result, current_playlist>>

-----------------------------------------------------------------------------
(* CLI: src/src/cli.py *)

\* "https://open.spotify.com/playlist/", character by character
UrlPrefix ==
    <<"h", "t", "t", "p", "s", ":", "/", "/", "o", "p", "e", "n", ".", "s", "p", "o", "t",
      "i", "f", "y", ".", "c", "o", "m", "/", "p", "l", "a", "y", "l", "i", "s", "t", "/">>

\* a playlist ID of 22 characters
BareId ==
    <<"3", "7", "i", "9", "d", "Q", "Z", "F", "1", "D", "X", "c", "B", "W", "I", "G", "o",
      "Y", "B", "M", "5", "M">>

\* arguments of the import command
ImportArgs ==
    {BareId,
     UrlPrefix \o BareId,
     UrlPrefix \o BareId \o <<"?", "s", "i", "=", "1">>,
     UrlPrefix \o BareId \o <<"/">>,
     UrlPrefix,
     <<"a", "b", "c">>}

\* s[a:b] of Python, for 0 <= a <= b
Slice(s, a, b) == IF a < Len(s) THEN SubSeq(s, a + 1, Min(b, Len(s))) ELSE <<>>

\* CLI.import_playlist: the playlist_id it passes to Playlist
import_id(arg) ==
    IF Len(arg) # 22 /\ Slice(arg, 0, 34) = UrlPrefix THEN Slice(arg, 34, 57) ELSE arg

\* CLI.import_playlist up to the enrichment loop: Playlist.__init__ calls
\* load_playlist and get_track_refs
ImportWith(arg, payload) ==
    /\ pc = "idle"
    /\ playlist_id' = import_id(arg)
    /\ playlist_data' = payload
    /\ track_data' = <<>>
    /\ IF get_track_refs_raises(payload)
       THEN /\ refs' = <<>>
            /\ pc' = "idle"
            /\ import_result' = "raised"
            /\ current_playlist' = None
       ELSE /\ refs' = get_track_refs(payload)
            /\ pc' = IF get_track_refs(payload) = <<>> THEN "build" ELSE "get"
            /\ import_result' = "running"
            /\ UNCHANGED current_playlist
    /\ UNCHANGED <<cacheVars, clockVars, getVars>>

\* the import command with a playlist ID as its argument
ImportStart(payload) == ImportWith(BareId, payload)

\* a faulty build that hands the collected list, None entries included, to
\* the cache (sensitivity of C15)
BuildPlaylist_PreFilter(outcome) ==
    /\ pc = "build"
    /\ LET tracks == playlist_tracks(track_data) IN
       IF build_raises(tracks)
       THEN /\ import_result' = "raised"
            /\ current_playlist' = None
            /\ UNCHANGED cacheVars
       ELSE /\ import_result' = "completed"
            /\ update_playlist(track_data, outcome)
            /\ current_playlist' = PlaylistObject(tracks)
    /\ pc' = "idle"
    /\ track_ref' = ""
    /\ n429' = 0
    /\ count_at_get' = 0
    /\ UNCHANGED <<clockVars, response, playlist_id, playlist_data, refs, track_data>>

\* the rest of Playlist.__init__ (build_playlist, vectors, song_list) and of
\* CLI.import_playlist, whose except clause drops the playlist
BuildPlaylist(outcome) ==
    /\ pc = "build"
    /\ LET tracks == playlist_tracks(track_data) IN
       IF build_raises(tracks)
       THEN /\ import_result' = "raised"
            /\ current_playlist' = None
            /\ UNCHANGED cacheVars
       ELSE /\ import_result' = "completed"
            /\ update_playlist(cache_data(tracks), outcome)
            /\ current_playlist' = PlaylistObject(tracks)
    /\ pc' = "idle"
    /\ track_ref' = ""
    /\ n429' = 0
    /\ count_at_get' = 0
    /\ UNCHANGED <<clockVars, response, playlist_id, playlist_data, refs, track_data>>

\* a faulty load_playlist that writes the restored list back to the cache
\* (sensitivity of C13)
LoadPlaylist_Rewrite ==
    /\ pc = "idle"
    /\ current_playlist' =
          IF Len(from_cache.playlist) = 0 THEN current_playlist ELSE from_cache
    /\ update_playlist(SelectSeq(get_cached_playlist, IsData), "ok")
    /\ UNCHANGED <<clockVars, getVars, importVars, import_result>>

\* CLI.load_playlist
LoadPlaylist ==
    /\ pc = "idle"
    /\ current_playlist' =
          IF Len(from_cache.playlist) = 0 THEN current_playlist ELSE from_cache
    /\ UNCHANGED <<cacheVars, clockVars, getVars, importVars, import_result>>

\* CLI.print_playlist: what it reports
print_playlist ==
    IF current_playlist = None THEN "No playlist imported"
    ELSE IF current_playlist.song_list = <<>> THEN "No tracks found"
    ELSE "tracks"

\* CLI.display_vector: what it reports
display_vector ==
    IF current_playlist = None THEN "No playlist imported"
    ELSE IF current_playlist.vectors = <<>> THEN "No tracks found"
    ELSE "vectors"

\* CLI.display_radar_plot: what it reports
display_radar_plot ==
    IF current_playlist = None THEN "No playlist imported"
    ELSE IF current_playlist.vectors = <<>> \/ current_playlist.song_list = <<>>
         THEN "No tracks found"
    ELSE "plot"

\* the store's own operations, called while no command runs
UpdateRequestCount(outcome) ==
    /\ pc = "idle"
    /\ request_count < MaxCount
    /\ update_request_count(outcome)

UpdatePlaylist(playlist, outcome) ==
    /\ pc = "idle"
    /\ update_playlist(playlist, outcome)

StoreFrame == UNCHANGED <<clockVars, getVars, importVars, import_result, current_playlist>>

\* the prompt waits for input
Idle ==
    /\ pc = "idle"
    /\ elapsed < ONE_SECOND \/ since_issue < ONE_SECOND
    /\ Advance(IdleStep)
    /\ UNCHANGED <<cacheVars, getVars, importVars, import_result, current_playlist>>

\* a new process: main() builds Cache, the clients and the CLI
NewSession(f) ==
    /\ CacheInit(f)
    /\ elapsed' = ONE_SECOND
    /\ since_issue' = ONE_SECOND
    /\ pc' = "idle"
    /\ playlist_id' = <<>>
    /\ playlist_data' = None
    /\ refs' = <<>>
    /\ track_data' = <<>>
    /\ track_ref' = ""
    /\ response' = None
    /\ n429' = 0
    /\ count_at_get' = 0
    /\ import_result' = "none"
    /\ current_playlist' = None

\* main() ends with the exception Cache() raised: no Cache, no CLI
FailedSession ==
    /\ pc' = "failed"
    /\ data' = EmptyDict
    /\ request_count' = 0
    /\ cached_playlist' = <<>>
    /\ elapsed' = ONE_SECOND
    /\ since_issue' = ONE_SECOND
    /\ playlist_id' = <<>>
    /\ playlist_data' = None
    /\ refs' = <<>>
    /\ track_data' = <<>>
    /\ track_ref' = ""
    /\ response' = None
    /\ n429' = 0
    /\ count_at_get' = 0
    /\ import_result' = "none"
    /\ current_playlist' = None

\* the process ends, or is interrupted outside a write, and is started again
Restart ==
    /\ cache_file' = cache_file
    /\ last_save' = "none"
    /\ IF CacheInitRaises(cache_file) THEN FailedSession ELSE NewSession(cache_file)

\* files found in place of the cache file at a start
ForeignFiles == {MissingFile, PartialFile, UnreadableFile, UndecodableFile, ArrayFile}

\* the file was removed, damaged or replaced outside the program, which is
\* then started
StartOver(f) ==
    /\ cache_file' = f
    /\ last_save' = "none"
    /\ IF CacheInitRaises(f) THEN FailedSession ELSE NewSession(f)

\* is a call of _save_cache possible at this point?
WritePossible ==
    \/ pc = "idle"
    \/ pc = "answered" /\ response # RequestException
    \/ pc = "build" /\ ~build_raises(playlist_tracks(track_data))

\* the process is interrupted inside _save_cache, after open(.., 'w') and
\* before the dump is complete, and is started again
InterruptedSave ==
    /\ WritePossible
    /\ cache_file' = PartialFile
    /\ last_save' = "interrupted"
    /\ NewSession(PartialFile)

-----------------------------------------------------------------------------

Init ==
    /\ cache_file = MissingFile
    /\ data = load_cache(MissingFile)
    /\ request_count = 0
    /\ cached_playlist = <<>>
    /\ last_save = "none"
    /\ elapsed = ONE_SECOND
    /\ since_issue = ONE_SECOND
    /\ pc = "idle"
    /\ playlist_id = <<>>
    /\ playlist_data = None
    /\ refs = <<>>
    /\ track_data = <<>>
    /\ track_ref = ""
    /\ response = None
    /\ n429 = 0
    /\ count_at_get = 0
    /\ import_result = "none"
    /\ current_playlist = None

StoreSet      == \E v \in OtherValues, o \in SaveOutcomes : CacheSet(OTHER_KEY, v, o) /\ StoreFrame
StoreDelete   == \E k \in {RC_KEY, PL_KEY, OTHER_KEY}, o \in SaveOutcomes : CacheDelete(k, o) /\ StoreFrame
StoreClear    == \E o \in SaveOutcomes : CacheClear(o) /\ StoreFrame
StoreCount    == \E o \in SaveOutcomes : UpdateRequestCount(o) /\ StoreFrame
StorePlaylist == \E p \in PlaylistValues, o \in SaveOutcomes : UpdatePlaylist(p, o) /\ StoreFrame
Import        == \E p \in Payloads : ImportStart(p)
Send          == \E r \in Responses \cup {RequestException}, l \in 0..MaxLatency : Request(r, l)
Answered      == \E o \in SaveOutcomes : HandleResponse(o)
Build         == \E o \in SaveOutcomes : BuildPlaylist(o)

\* the same, in a session whose writes to durable media all succeed
SavedSet      == \E v \in OtherValues : CacheSet(OTHER_KEY, v, "ok") /\ StoreFrame
SavedDelete   == \E k \in {RC_KEY, PL_KEY, OTHER_KEY} : CacheDelete(k, "ok") /\ StoreFrame
SavedClear    == CacheClear("ok") /\ StoreFrame
SavedCount    == UpdateRequestCount("ok") /\ StoreFrame
SavedPlaylist == \E p \in PlaylistValues : UpdatePlaylist(p, "ok") /\ StoreFrame
SavedAnswered == HandleResponse("ok")
SavedBuild    == BuildPlaylist("ok")

\* the import pipeline
Next ==
    \/ StorePlaylist
    \/ Import
    \/ GetBegin
    \/ Send
    \/ Answered
    \/ HandleException
    \/ Build
    \/ LoadPlaylist
    \/ Idle
    \/ Restart
    \/ InterruptedSave

Spec == Init /\ [][Next]_vars

\* the store on its own
NextStore ==
    \/ StoreSet
    \/ StoreDelete
    \/ StoreClear
    \/ StoreCount
    \/ StorePlaylist
    \/ LoadPlaylist
    \/ Restart
    \/ InterruptedSave

SpecStore == Init /\ [][NextStore]_vars

StartForeign == \E f \in ForeignFiles : StartOver(f)

\* the store, started over files of any kind
NextStart ==
    \/ StoreSet
    \/ StoreDelete
    \/ StoreClear
    \/ StoreCount
    \/ StorePlaylist
    \/ LoadPlaylist
    \/ Restart
    \/ InterruptedSave
    \/ StartForeign

SpecStart == Init /\ [][NextStart]_vars

\* a cached playlist of one track is stored
StoreTrack == \E a \in TrackInputs : UpdatePlaylist(<<a>>, "ok") /\ StoreFrame

\* Track Records built from cached attributes of any kind
NextTrack ==
    \/ StoreTrack
    \/ LoadPlaylist
    \/ Restart

SpecTrack == Init /\ [][NextTrack]_vars

ImportAny == \E a \in ImportArgs, p \in {None, PayloadOf(<<>>)} : ImportWith(a, p)

\* payloads in which a key is present and maps to null
NullPayloads ==
    {[tracks |-> None],
     PayloadOf(<<None, ItemOf("t2")>>),
     PayloadOf(<<[track |-> None], ItemOf("t2")>>),
     PayloadOf(<<ItemOf("t1"), [track |-> None]>>)}

ImportNull == \E p \in NullPayloads : ImportStart(p)

\* import commands with arguments of any form, for playlists without tracks
NextImport ==
    \/ ImportAny
    \/ ImportNull
    \/ Build
    \/ StorePlaylist
    \/ Restart

SpecImport == Init /\ [][NextImport]_vars

\* an answer other than a 429, or a failure at network level
SendFinal ==
    \E r \in Responses \cup {RequestException}, l \in 0..MaxLatency :
        /\ IF r = RequestException THEN TRUE ELSE r.status # 429
        /\ Request(r, l)

\* one session that is not interrupted
NextLive ==
    \/ Import
    \/ GetBegin
    \/ Send
    \/ Answered
    \/ HandleException
    \/ Build

\* the process keeps running: a sleep ends, a request ends within its timeout
\* of 30 s, and the handling of its outcome and the build are carried out;
\* the service does not answer 429 forever
Fairness ==
    /\ WF_vars(GetBegin)
    /\ WF_vars(Send)
    /\ WF_vars(Answered)
    /\ WF_vars(HandleException)
    /\ WF_vars(Build)
    /\ SF_vars(SendFinal)

SpecLive == Init /\ [][NextLive]_vars /\ Fairness

\* the store and the pipeline together, every write succeeding
NextSaved ==
    \/ SavedSet
    \/ SavedDelete
    \/ SavedClear
    \/ SavedCount
    \/ SavedPlaylist
    \/ Import
    \/ GetBegin
    \/ Send
    \/ SavedAnswered
    \/ HandleException
    \/ SavedBuild
    \/ LoadPlaylist
    \/ Idle
    \/ Restart

SpecSaved == Init /\ [][NextSaved]_vars

-----------------------------------------------------------------------------
(* Steps of the pipeline, as seen in a pair of states *)

\* the step that ends Playlist(...): BuildPlaylist
BuildStep == import_result = "running" /\ import_result' \in {"completed", "raised"}

\* the step that sends a request: Request
SendStep == pc = "request" /\ pc' = "answered"

\* a step that handles the outcome of one attempt: HandleResponse, HandleException
HandleStep == pc = "answered" /\ import_result' = "running"

\* the step in which get() returns after a response that is not a 429
ResponseReturnStep == HandleStep /\ response # RequestException /\ response.status # 429

\* the valid entries of track_data, in reference order
ValidData == SelectSeq(track_data, IsData)

-----------------------------------------------------------------------------
(* C1: an import in which k of the N references get attributes ends with a  *)
(* Playlist of exactly those k Track Records in reference order, names and  *)
(* vectors of length k, and the cache's cached playlist holding those k     *)
(* attribute mappings.                                                      *)
C1_ImportKeepsValidTracks ==
    [][BuildStep =>
        /\ current_playlist' # None
        /\ Len(current_playlist'.playlist) = Len(ValidData)
        /\ \A i \in 1..Len(ValidData) : get_track(current_playlist'.playlist[i]) = ValidData[i]
        /\ Len(current_playlist'.song_list) = Len(ValidData)
        /\ Len(current_playlist'.vectors) = Len(ValidData)
        /\ cached_playlist' = ValidData
        /\ CacheGet(PL_KEY, <<>>)' = ValidData]_vars

(* C2: constructing the Playlist never raises, whatever the playlist fetch  *)
(* and the per-track enrichment outcomes were.                              *)
C2_ImportNeverRaises == import_result # "raised"

C4_EveryAttemptCounted == [][HandleStep => request_count' = request_count + 1]_vars

(* C5: a get() answered 429 k times and then otherwise has raised the       *)
(* counter by exactly k+1, in memory, in the store and (the last write      *)
(* succeeding) on durable media, and returns what the final response gives. *)
C5_ThrottledGetCounts ==
    [][ResponseReturnStep =>
        /\ request_count' = count_at_get + n429 + 1
        /\ CacheGet(RC_KEY, 0)' = request_count'
        /\ last_save' = "ok" => PersistedCount' = request_count'
        /\ track_data'[Len(track_data')] = ResultOf(response)]_vars

\* a get() that was answered 429 twice and then 200 has returned
C5_Witness ==
    /\ pc \in {"get", "build"}
    /\ n429 = 2
    /\ request_count = count_at_get + 3
    /\ track_data[Len(track_data)] \in TrackAttrs

(* C6: after an interruption inside a write, a fresh load yields what the   *)
(* file held before that write began.                                       *)
C6_InterruptKeepsLastWrite ==
    [][last_save' = "interrupted" => load_cache(cache_file') = load_cache(cache_file)]_vars

(* C7: request_count and get_cached_playlist() agree with the store's       *)
(* "request count" and "cached playlist" entries in every state.            *)
C7_ConveniencesInSync ==
    /\ request_count = CacheGet(RC_KEY, 0)
    /\ get_cached_playlist = CacheGet(PL_KEY, <<>>)

C9_WriteThrough ==
    [][/\ last_save' # "failed" => load_cache(cache_file') = data'
       /\ \A v \in OtherValues :
            (\E o \in SaveOutcomes : CacheSet(OTHER_KEY, v, o) /\ StoreFrame) =>
                /\ CacheGet(OTHER_KEY, None)' = v
                /\ last_save' = "ok" => DictGet(load_cache(cache_file'), OTHER_KEY, None) = v]_vars

\* the store holds all three keys and the file was written with them
C9_Witness ==
    /\ last_save = "ok"
    /\ DOMAIN data = {RC_KEY, PL_KEY, OTHER_KEY}
    /\ data[PL_KEY] # <<>>
    /\ load_cache(cache_file) = data

(* C10: when an import ends over an earlier snapshot, no track of that      *)
(* snapshot is left in the cached playlist unless the import has it too.    *)
C10_ReimportOverwrites ==
    [][BuildStep /\ cached_playlist # <<>> =>
        \A i \in 1..Len(cached_playlist') :
            \E j \in 1..Len(track_data) : track_data[j] = cached_playlist'[i]]_vars

(* C11: when the playlist fetch returned None, no enrichment request is     *)
(* sent, and the import command ends with no current playlist, so that the  *)
(* print, vector and plot commands report that no playlist is imported.     *)
C11_FailedFetchLeavesNoPlaylist ==
    [][/\ SendStep => playlist_data # None
       /\ BuildStep /\ playlist_data = None =>
            /\ current_playlist' = None
            /\ print_playlist' = "No playlist imported"
            /\ display_vector' = "No playlist imported"
            /\ display_radar_plot' = "No playlist imported"]_vars

\* the number of entries of list among its first i that are not None
Rank(list, i) == Cardinality({j \in 1..i : list[j] # None})

(* C12: from_cache sends no playlist fetch and no enrichment request,       *)
(* whatever the cached playlist is, and yields one Track Record per entry   *)
(* of it that is not None, in cached order (none for []).                   *)
C12_FromCacheOffline ==
    [][LoadPlaylist =>
        LET cached == get_cached_playlist
            restored == from_cache.playlist
        IN /\ UNCHANGED <<pc, playlist_data, response, request_count, elapsed, since_issue>>
           /\ Len(restored) = Rank(cached, Len(cached))
           /\ \A i \in 1..Len(cached) :
                 cached[i] # None => get_track(restored[Rank(cached, i)]) = cached[i]
           /\ cached = <<>> => restored = <<>>
           /\ restored # <<>> => current_playlist' = from_cache]_vars

\* a cached playlist with a None entry was restored: one Track Record
C12_Witness ==
    /\ cached_playlist = <<AttrsA, None>>
    /\ current_playlist # None
    /\ Len(current_playlist.playlist) = 1
    /\ get_track(current_playlist.playlist[1]) = AttrsA
    /\ pc = "idle"

(* C13: from_cache does not write: the in-memory store, the durable file,   *)
(* the cached playlist and the request counter are the same after the call  *)
(* as before it, and no _save_cache takes place.                            *)
C13_FromCacheLeavesStore ==
    [][LoadPlaylist =>
        /\ data' = data
        /\ cache_file' = cache_file
        /\ get_cached_playlist' = get_cached_playlist
        /\ request_count' = request_count
        /\ last_save' = last_save]_vars

\* a playlist was restored while the file lags behind the in-memory store
C13_Witness ==
    /\ import_result = "none"
    /\ current_playlist # None
    /\ Len(current_playlist.playlist) = 2
    /\ cached_playlist = <<AttrsB, AttrsA>>
    /\ last_save = "failed"
    /\ load_cache(cache_file) # data

\* a step in which get() returns: the attempt was not answered 429
TerminalStep == HandleStep /\ (response = RequestException \/ response.status # 429)

(* C14: get() returns the parsed attributes of a 200 answer with a          *)
(* well-formed body; for any other status but 429, a malformed body and a   *)
(* network failure it returns None, without raising; in each case the last  *)
(* request time is the time at which that attempt ended.                    *)
C14_TerminalOutcomes ==
    [][TerminalStep =>
        /\ Len(track_data') = Len(track_data) + 1
        /\ LET result == track_data'[Len(track_data')] IN
           IF response # RequestException /\ response.status = 200 /\ response.body \in TrackAttrs
           THEN result = response.body
           ELSE result = None
        /\ elapsed' = 0
        /\ import_result' = "running"
        /\ pc' \in {"get", "build"}]_vars

\* an import whose first get() returned attributes and whose second returned None
C14_Witness ==
    /\ pc = "build"
    /\ Len(track_data) = 2
    /\ track_data[1] \in TrackAttrs
    /\ track_data[2] = None
    /\ elapsed = 0

CallStep == pc = "get" /\ pc' = "request"

(* C16: get_track_data calls get() once per reference, one after the other  *)
(* and in reference order, with the last path segment of that reference;    *)
(* each call adds one entry at the index of its reference, and the          *)
(* collected list has one entry per reference.                              *)
C16_OneCallPerReference ==
    [][/\ CallStep =>
            /\ Len(track_data) < Len(refs)
            /\ LET ref == refs[Len(track_data) + 1] IN
                 /\ track_ref' = ref[Len(ref)]
                 /\ Href(track_ref') = ref
            /\ track_data' = track_data
       /\ SendStep => UNCHANGED <<track_ref, track_data, refs>>
       /\ TerminalStep =>
            /\ Len(track_data') = Len(track_data) + 1
            /\ \A i \in 1..Len(track_data) : track_data'[i] = track_data[i]
            /\ Href(track_ref) = refs[Len(track_data')]
            /\ pc' = IF Len(track_data') < Len(refs) THEN "get" ELSE "build"
       /\ BuildStep => Len(track_data) = Len(refs)]_vars

\* the second reference of a playlist is being enriched
C16_Witness ==
    /\ pc = "request"
    /\ refs = <<Href("t1"), Href("t2")>>
    /\ Len(track_data) = 1
    /\ track_ref = "t2"

\* names and vectors of the Playlist p are index-aligned with its Track Records
Aligned(p) ==
    /\ Len(p.song_list) = Len(p.playlist)
    /\ Len(p.vectors) = Len(p.playlist)
    /\ \A i \in 1..Len(p.playlist) :
         /\ p.song_list[i] = get_name(p.playlist[i])
         /\ p.vectors[i] = get_vector(p.playlist[i])

(* C17: in the Playlist an import or from_cache produces, names, vectors    *)
(* and playlist have the same length, and names[i] and vectors[i] are the   *)
(* name and the vector of the Track Record playlist[i].                     *)
C17_NamesVectorsAligned ==
    /\ current_playlist # None => Aligned(current_playlist)
    /\ Aligned(from_cache)

\* the CLI holds a restored Playlist of two tracks
C17_Witness ==
    /\ current_playlist # None
    /\ current_playlist.song_list = <<Str("B"), Str("A")>>
    /\ Len(current_playlist.vectors) = 2
    /\ current_playlist.vectors[2][2] = Num(16)
    /\ get_track(current_playlist.playlist[2]) = AttrsA

\* no key of the payload that the extraction looks up maps to null
NullFree(payload) ==
    \/ payload = None
    \/ "tracks" \notin DOMAIN payload
    \/ /\ payload.tracks # None
       /\ \/ "items" \notin DOMAIN payload.tracks
          \/ \A i \in 1..Len(payload.tracks.items) :
                LET item == payload.tracks.items[i] IN
                /\ item # None
                /\ "track" \in DOMAIN item => item.track # None

\* the items of the payload, if it has any
ItemsOf(payload) ==
    IF payload # None /\ "tracks" \in DOMAIN payload /\ "items" \in DOMAIN payload.tracks
    THEN payload.tracks.items
    ELSE <<>>

\* the number of items among the first i that have an href
HrefRank(items, i) ==
    Cardinality({j \in 1..i : "track" \in DOMAIN items[j] /\ "href" \in DOMAIN items[j].track})

(* C18: for a null payload and for a payload in which "tracks", "items",    *)
(* an item's "track" or its "href" is absent, get_track_refs does not raise *)
(* and returns the hrefs of the items that have one, in item order: the     *)
(* empty list when no item has one.                                         *)
C18_RefsTotalOverAbsentKeys ==
    [][\A p \in Payloads : ImportStart(p) /\ NullFree(p) =>
        LET items == ItemsOf(p) IN
        /\ import_result' = "running"
        /\ Len(refs') = HrefRank(items, Len(items))
        /\ \A i \in 1..Len(items) :
             HrefRank(items, i) > HrefRank(items, i - 1) =>
                refs'[HrefRank(items, i)] = items[i].track.href
        /\ HrefRank(items, Len(items)) = 0 => refs' = <<>> /\ pc' = "build"]_vars

\* the references of a payload of two items, neither with an href, were extracted
C18_Witness ==
    /\ playlist_data = PayloadOf(<<[added_at |-> Str("d")], [track |-> EmptyDict]>>)
    /\ import_result = "running"
    /\ pc = "build"
    /\ refs = <<>>

\* a step that constructs the Cache
CacheInitStep == Restart \/ InterruptedSave \/ StartForeign

(* C19: get(key, default) returns the stored value of a key that is present *)
(* and default otherwise; constructing the store over a file that is        *)
(* missing, unreadable or corrupt does not fail, and the store is then the  *)
(* empty mapping, so that get returns default.                              *)
C19_CorruptFileIsEmptyStore ==
    [][/\ \A k \in {RC_KEY, PL_KEY, OTHER_KEY} :
            CacheGet(k, None)' = IF k \in DOMAIN data' THEN data'[k] ELSE None
       /\ CacheInitStep /\ cache_file'.kind # "json" =>
            /\ pc' # "failed"
            /\ data' = EmptyDict
            /\ \A k \in {RC_KEY, PL_KEY, OTHER_KEY} : CacheGet(k, None)' = None
            /\ request_count' = 0
            /\ get_cached_playlist' = <<>>]_vars

(* C20: a set(key, value) whose write to durable media fails does not       *)
(* raise, leaves key mapped to value in memory, so that a following get     *)
(* returns value, and leaves what was persisted before as it was.           *)
C20_FailedWriteSwallowed ==
    [][\A v \in OtherValues, o \in SaveOutcomes \ {"ok"} :
        CacheSet(OTHER_KEY, v, o) /\ StoreFrame =>
            /\ pc' = "idle"
            /\ last_save' = "failed"
            /\ CacheGet(OTHER_KEY, None)' = v
            /\ load_cache(cache_file') = load_cache(cache_file)]_vars

\* the Track Records of the Playlist the CLI holds
HeldTracks ==
    IF current_playlist = None THEN {}
    ELSE {current_playlist.playlist[i] : i \in 1..Len(current_playlist.playlist)}

(* C21, as claimed: a Track Record built from attributes without a "name"   *)
(* key, the empty mapping included, has the name "Unknown Track".           *)
C21_MissingNameIsUnknownTrack ==
    \A track \in HeldTracks :
        "name" \notin DOMAIN get_track(track) => get_name(track) = Str("Unknown Track")

(* C21, amended: a Track Record built from a non-empty mapping without a    *)
(* "name" key has the name "Unknown Track"; one built from the empty        *)
(* mapping has the empty name; a name that is present is kept.              *)
C21_NameDefault ==
    \A track \in HeldTracks :
        LET attrs == get_track(track) IN
        get_name(track) =
            IF attrs = EmptyDict THEN Str("")
            ELSE IF "name" \in DOMAIN attrs THEN attrs.name
            ELSE Str("Unknown Track")

\* the CLI holds a Track built from a non-empty mapping without a name
C21_Witness ==
    /\ current_playlist # None
    /\ get_track(current_playlist.playlist[1]) = [key |-> Str("C")]
    /\ current_playlist.song_list = <<Str("Unknown Track")>>

\* the continuous fields, in the order of the vector's slots 3 to 9
ContinuousFields ==
    <<"tempo", "energy", "danceability", "happiness", "acousticness", "liveness", "speechiness">>

(* C22: the vector of a Track Record has exactly 9 elements: the numeric    *)
(* mode, the numeric Camelot code, then tempo, energy, danceability,        *)
(* happiness, acousticness, liveness and speechiness, each the value of its *)
(* attribute as given (0 included) or null where the attribute is missing.  *)
C22_VectorHasNineSlots ==
    current_playlist # None =>
        \A i \in 1..Len(current_playlist.playlist) :
            LET attrs == get_track(current_playlist.playlist[i])
                vector == current_playlist.vectors[i]
            IN /\ Len(vector) = 9
               /\ vector[1] = Num(TableGet(MODE_TO_NUMERIC, DictGet(attrs, "mode", Str(""))))
               /\ vector[2] = Num(TableGet(CAMELOT_TO_NUMERIC, DictGet(attrs, "camelot", Str(""))))
               /\ \A k \in 1..7 :
                    vector[k + 2] =
                        IF ContinuousFields[k] \in DOMAIN attrs
                        THEN attrs[ContinuousFields[k]]
                        ELSE None

\* the CLI holds the vector of a Track with tempo 0 and fields missing
C22_Witness ==
    /\ current_playlist # None
    /\ get_track(current_playlist.playlist[1]) = AttrsSparse
    /\ current_playlist.vectors =
          <<<<Num(0), Num(0), Num(0), None, None, Num(4), None, None, Num(0)>>>>

\* 2n-1 for the code nA, 2n for the code nB, 0 for any other string
WheelNumber(c) ==
    IF \E n \in 1..12 : WheelA[n] = c THEN 2 * (CHOOSE n \in 1..12 : WheelA[n] = c) - 1
    ELSE IF \E n \in 1..12 : WheelB[n] = c THEN 2 * (CHOOSE n \in 1..12 : WheelB[n] = c)
    ELSE 0

(* C24: the numeric Camelot code of the 24 wheel codes is 2n-1 for nA and   *)
(* 2n for nB, one code for each of 1..24, and 0 for every other string, the *)
(* empty one included; a Track's vector carries that number.                *)
C24_CamelotNumbering ==
    /\ \A c \in CamelotCodes \cup OtherCamelot :
         TableGet(CAMELOT_TO_NUMERIC, Str(c)) = WheelNumber(c)
    /\ {TableGet(CAMELOT_TO_NUMERIC, Str(c)) : c \in CamelotCodes} = 1..24
    /\ Cardinality(CamelotCodes) = 24
    /\ \A c \in OtherCamelot : TableGet(CAMELOT_TO_NUMERIC, Str(c)) = 0
    /\ \A track \in HeldTracks :
         "camelot" \in DOMAIN get_track(track) =>
            get_vector(track)[2] = Num(WheelNumber(get_track(track).camelot.str))

\* the CLI holds a Track with the last code of the wheel
C24_Witness ==
    /\ current_playlist # None
    /\ get_track(current_playlist.playlist[1]) = [name |-> Str("c"), camelot |-> Str("12B")]
    /\ current_playlist.vectors[1][2] = Num(24)

(* C25: the numeric mode is 1 for "major", 0 for "minor" and 0 for every    *)
(* other string, the empty one included, and for a missing mode.            *)
C25_ModeNumbering ==
    /\ TableGet(MODE_TO_NUMERIC, Str("major")) = 1
    /\ TableGet(MODE_TO_NUMERIC, Str("minor")) = 0
    /\ \A m \in ModeStrings \ {"major", "minor"} : TableGet(MODE_TO_NUMERIC, Str(m)) = 0
    /\ \A track \in HeldTracks :
         LET attrs == get_track(track) IN
         get_vector(track)[1] =
            IF "mode" \in DOMAIN attrs /\ attrs.mode = Str("major") THEN Num(1) ELSE Num(0)

\* the CLI holds a Track in a major mode
C25_Witness ==
    /\ current_playlist # None
    /\ get_track(current_playlist.playlist[1]) = [mode |-> Str("major")]
    /\ current_playlist.vectors[1][1] = Num(1)

\* arg is the URL prefix, 22 characters, and possibly more
IsPlaylistUrl(arg) == Len(arg) >= 56 /\ SubSeq(arg, 1, 34) = UrlPrefix

(* C23: for an argument that is the playlist URL prefix, a 22-character ID  *)
(* and any further characters, the import command hands exactly that ID to  *)
(* Playlist; an argument of 22 characters is handed over as it is.          *)
C23_IdExtractedFromUrl ==
    [][\A a \in ImportArgs, p \in Payloads :
        ImportWith(a, p) =>
            /\ IsPlaylistUrl(a) => playlist_id' = SubSeq(a, 35, 56)
            /\ Len(a) = 22 => playlist_id' = a]_vars

(* C26: an import runs its phases in order: no enrichment request is sent   *)
(* before the playlist was fetched and its references extracted; the        *)
(* cached playlist is not written while calls are outstanding; the import   *)
(* ends with one write of the cached playlist, made when every reference    *)
(* has its entry, and with the Track Records, names and vectors built.      *)
C26_PhaseOrder ==
    [][/\ CallStep \/ SendStep =>
            /\ import_result = "running"
            /\ playlist_data # None
            /\ refs = get_track_refs(playlist_data)
       /\ import_result = "running" /\ import_result' = "running" =>
            cached_playlist' = cached_playlist
       /\ BuildStep =>
            /\ pc = "build"
            /\ Len(track_data) = Len(refs)
            /\ import_result' = "completed"
            /\ cached_playlist' = ValidData
            /\ current_playlist' # None
            /\ Aligned(current_playlist')
            /\ Len(current_playlist'.playlist) = Len(ValidData)]_vars

\* the step that handles a 429 answer
ThrottledStep == HandleStep /\ response # RequestException /\ response.status = 429

(* C27: a 429 answer never ends get(): whatever the number of 429s so far,  *)
(* the request counter grows by one and the request is sent again; when     *)
(* the service does not answer 429 forever, a get() that has begun returns  *)
(* its entry, and an import that has begun reaches the write of its cached  *)
(* playlist.                                                                *)
C27_RetryLoopTerminates ==
    /\ [][ThrottledStep =>
            /\ pc' = "request"
            /\ request_count' = request_count + 1
            /\ n429' = n429 + 1
            /\ UNCHANGED <<track_data, track_ref>>]_vars
    /\ \A k \in 0..1 :
          (pc = "request" /\ Len(track_data) = k) ~> (Len(track_data) = k + 1)
    /\ (import_result = "running") ~> (import_result = "completed")

(* C28: an import whose playlist fetch returned None, or whose payload has  *)
(* no reference, leaves a cached playlist that was stored before as it is,  *)
(* in memory and in the durable file, so that from_cache gives the same     *)
(* Playlist after the import as before it.                                  *)
C28_FailedImportKeepsSnapshot ==
    [][BuildStep /\ refs = <<>> /\ cached_playlist # <<>> =>
        /\ cached_playlist' = cached_playlist
        /\ PersistedPlaylist' = PersistedPlaylist
        /\ from_cache' = from_cache]_vars

\* Playlist.from_cache over a store freshly loaded from the durable file
from_cache_reloaded == PlaylistObject(playlist_tracks(PersistedPlaylist))

(* C29: import then restore is a round trip: when an import has ended,      *)
(* from_cache on the same store yields the names and vectors of the         *)
(* imported Playlist, and so does from_cache on a store loaded from the     *)
(* file when the import's write succeeded.                                  *)
C29_ImportRestoreRoundTrip ==
    [][BuildStep =>
        /\ current_playlist' # None
        /\ from_cache'.song_list = current_playlist'.song_list
        /\ from_cache'.vectors = current_playlist'.vectors
        /\ last_save' = "ok" =>
              /\ from_cache_reloaded'.song_list = current_playlist'.song_list
              /\ from_cache_reloaded'.vectors = current_playlist'.vectors]_vars

(* C30: for a payload in which "tracks", an entry of the item list or an    *)
(* item's "track" is null, get_track_refs does not raise: it skips that     *)
(* element and returns the hrefs of the other items, in item order.         *)
C30_RefsSkipNulls ==
    [][\A p \in NullPayloads : ImportStart(p) =>
        LET items == ItemsOf(p) IN
        /\ import_result' = "running"
        /\ Len(refs') = HrefRank(items, Len(items))
        /\ \A i \in 1..Len(items) :
             HrefRank(items, i) > HrefRank(items, i - 1) =>
                refs'[HrefRank(items, i)] = items[i].track.href]_vars

====
